---- MODULE Spec2Model ----
(***************************************************************************)
(* Kenya Law scraper service (src/main.py): POST /scrape discovers links,  *)
(* crawls them through the scrape provider and stores the pages in the     *)
(* process-wide document cache; POST /chat builds a prompt from a cached   *)
(* document and forwards it to the completion provider.                    *)
(*                                                                         *)
(* Python str values are TLA+ strings; Len, SubSeq and \o act on them as   *)
(* len(), slicing and + do.  A Python value that may also be None or of    *)
(* another type is a tagged record: Str(s), None, PyInt(n).                  *)
(***************************************************************************)
EXTENDS Integers, Sequences, FiniteSets, TLC

VARIABLES
    GEMINI_API_KEY,     \* module global read from the environment at start-up
    scraped_documents,  \* the process-wide cache: document id -> cached document
    now,                \* int(time.time()): the clock, in whole seconds
    task,               \* the /chat handler suspended in "await call_llm(prompt)"
    last,               \* the request handled last and everything it did
    disc                \* one call of get_start_urls: its arguments and its result

vars == <<GEMINI_API_KEY, scraped_documents, now, task, last, disc>>

(***************************************************************************)
(* Bounds of the model.                                                    *)
(***************************************************************************)
MaxNow == 1             \* the clock stops advancing at this second
LongDoublings == 12     \* the long page holds 2^LongDoublings characters
MaxLinks == 3           \* links on the page handed to get_start_urls
MaxLimit == 3           \* largest page limit of a request

(***************************************************************************)
(* Python values that are not strings.                                     *)
(***************************************************************************)
Str(s) == [t |-> "str", v |-> s]
PyInt(n) == [t |-> "int", n |-> n]
None == [t |-> "None"]
IsStr(x) == x.t = "str"
IsNone(x) == x.t = "None"

\* Python truthiness of a str, int or None value ("not x" is its negation)
Truthy(x) ==
    CASE x.t = "str" -> x.v # ""
      [] x.t = "int" -> x.n # 0
      [] OTHER -> FALSE

Min(a, b) == IF a <= b THEN a ELSE b

(***************************************************************************)
(* str operations.                                                         *)
(***************************************************************************)
Ch(s, i) == SubSeq(s, i, i)

\* s[a:b] with 0 <= a, in Python's 0-based half-open convention
Slice(s, a, b) == SubSeq(s, a + 1, Min(b, Len(s)))

\* s[a:]
SliceFrom(s, a) == SubSeq(s, a + 1, Len(s))

startswith(s, p) == Len(p) <= Len(s) /\ SubSeq(s, 1, Len(p)) = p

endswith(s, p) == Len(p) <= Len(s) /\ SubSeq(s, Len(s) - Len(p) + 1, Len(s)) = p

\* p in s
contains(s, p) == \E i \in 1..(Len(s) - Len(p) + 1) : SubSeq(s, i, i + Len(p) - 1) = p

\* s.find(p): the 0-based index of the first occurrence, -1 when there is none
find(s, p) ==
    LET hits == {i \in 1..(Len(s) - Len(p) + 1) : SubSeq(s, i, i + Len(p) - 1) = p}
    IN  IF hits = {} THEN -1
        ELSE (CHOOSE i \in hits : \A j \in hits : i <= j) - 1

UpperCase == "ABCDEFGHIJKLMNOPQRSTUVWXYZ"
LowerCase == "abcdefghijklmnopqrstuvwxyz"
Digits == "0123456789"

UpperChars == {Ch(UpperCase, i) : i \in 1..Len(UpperCase)}
LowerOf == [c \in UpperChars |-> Ch(LowerCase, find(UpperCase, c) + 1)] @@ <<>>

\* c.lower() for one character
LowerCh(c) == IF c \in UpperChars THEN LowerOf[c] ELSE c

RECURSIVE LowerFrom(_, _)
LowerFrom(s, i) ==
    IF i > Len(s) THEN "" ELSE LowerCh(Ch(s, i)) \o LowerFrom(s, i + 1)

\* s.lower()
lower(s) == LowerFrom(s, 1)

RECURSIVE split(_, _)
\* s.split(sep) for a one-character sep
split(s, sep) ==
    LET k == find(s, sep)
    IN  IF k < 0 THEN <<s>>
        ELSE <<Slice(s, 0, k)>> \o split(SliceFrom(s, k + 1), sep)

RECURSIVE join(_, _)
\* sep.join(parts)
join(sep, parts) ==
    IF Len(parts) = 0 THEN ""
    ELSE IF Len(parts) = 1 THEN parts[1]
    ELSE parts[1] \o sep \o join(sep, Tail(parts))

(***************************************************************************)
(* urllib.parse, as far as main.py uses it: urlparse(url).netloc and       *)
(* urljoin(base, url).  Path parameters (";") are not split off: no URL of *)
(* the model carries one, and splitting and re-joining them is the         *)
(* identity on the joined URL.                                             *)
(***************************************************************************)
SchemeChars == LowerCase \o UpperCase \o Digits \o "+-."
UsesRelative == {"", "http", "https", "ftp", "file"}
UsesNetloc == {"", "http", "https", "ftp", "file"}

SchemeCharSet == {Ch(SchemeChars, i) : i \in 1..Len(SchemeChars)}
Letters == {Ch(LowerCase \o UpperCase, i) : i \in 1..Len(LowerCase \o UpperCase)}

IsSchemeText(s) == \A i \in 1..Len(s) : Ch(s, i) \in SchemeCharSet

\* the index where the netloc ends: the first of "/", "?", "#" at or after
\* position n (0-based), len(url) when there is none
SplitNetlocAt(url, n) ==
    LET ends == {i \in (n + 1)..Len(url) : Ch(url, i) \in {"/", "?", "#"}}
    IN  IF ends = {} THEN Len(url)
        ELSE (CHOOSE i \in ends : \A j \in ends : i <= j) - 1

\* s cut at the separator found at 0-based index k; no cut when k < 0
Partition(s, k) ==
    IF k >= 0 THEN [head |-> Slice(s, 0, k), tail |-> SliceFrom(s, k + 1)]
    ELSE [head |-> s, tail |-> ""]

\* urlsplit: the scheme before the ":" found at index i, and the rest
SplitScheme(url, default, i) ==
    IF i > 0 /\ Ch(url, 1) \in Letters /\ IsSchemeText(Slice(url, 0, i))
    THEN [scheme |-> lower(Slice(url, 0, i)), rest |-> SliceFrom(url, i + 1)]
    ELSE [scheme |-> default, rest |-> url]

\* urlsplit: the netloc after "//", ending at index cut, and the rest
SplitNetloc(url, cut) ==
    IF Slice(url, 0, 2) = "//"
    THEN [netloc |-> Slice(url, 2, cut), rest |-> SliceFrom(url, cut)]
    ELSE [netloc |-> "", rest |-> url]

\* urlsplit: the query cut off the path, f being the split at "#"
SplitQuery(scheme, netloc, q, f) ==
    [scheme |-> scheme, netloc |-> netloc, path |-> q.head,
     query |-> q.tail, fragment |-> f.tail]

\* urlsplit: the fragment and the query cut off what follows the netloc
SplitFragment(scheme, netloc, f) ==
    SplitQuery(scheme, netloc, Partition(f.head, find(f.head, "?")), f)

SplitAfterNetloc(scheme, n) ==
    SplitFragment(scheme, n.netloc, Partition(n.rest, find(n.rest, "#")))

SplitAfterScheme(s) ==
    SplitAfterNetloc(s.scheme, SplitNetloc(s.rest, SplitNetlocAt(s.rest, 2)))

\* urlsplit(url, scheme=default)
urlsplit(url, default) == SplitAfterScheme(SplitScheme(url, default, find(url, ":")))

\* urlunsplit((scheme, netloc, path, query, fragment))
urlunsplit(scheme, netloc, path, query, fragment) ==
    (IF scheme # "" THEN scheme \o ":" ELSE "")
    \o (IF netloc # "" \/ (scheme # "" /\ scheme \in UsesNetloc /\ Slice(path, 0, 2) # "//")
        THEN "//" \o netloc \o
             (IF path # "" /\ Slice(path, 0, 1) # "/" THEN "/" \o path ELSE path)
        ELSE path)
    \o (IF query # "" THEN "?" \o query ELSE "")
    \o (IF fragment # "" THEN "#" \o fragment ELSE "")

\* segments[1:-1] = filter(None, segments[1:-1])
DropEmptyInner(segments) ==
    IF Len(segments) <= 2 THEN segments
    ELSE <<segments[1]>>
         \o SelectSeq(SubSeq(segments, 2, Len(segments) - 1), LAMBDA g : g # "")
         \o <<segments[Len(segments)]>>

RECURSIVE ResolveDots(_, _, _)
\* the loop of urljoin that removes "." and ".." segments
ResolveDots(segments, i, resolved) ==
    IF i > Len(segments) THEN resolved
    ELSE LET seg == segments[i]
         IN  IF seg = ".."
             THEN ResolveDots(segments, i + 1,
                     IF Len(resolved) = 0 THEN resolved
                     ELSE SubSeq(resolved, 1, Len(resolved) - 1))
             ELSE IF seg = "."
             THEN ResolveDots(segments, i + 1, resolved)
             ELSE ResolveDots(segments, i + 1, Append(resolved, seg))

\* urljoin: base_parts, the segments of the base path without the last one
\* unless that is empty
BaseParts(parts) ==
    IF parts[Len(parts)] # "" THEN SubSeq(parts, 1, Len(parts) - 1) ELSE parts

\* urljoin: the segments of the joined path before "." and ".." are resolved
Segments(base_path, path) ==
    IF Slice(path, 0, 1) = "/" THEN split(path, "/")
    ELSE DropEmptyInner(BaseParts(split(base_path, "/")) \o split(path, "/"))

\* urljoin: a path ending in "." or ".." ends in "/" once resolved
ResolvedPath(segments, resolved) ==
    IF segments[Len(segments)] \in {".", ".."} THEN Append(resolved, "") ELSE resolved

\* urljoin: "/".join(resolved_path) or "/"
JoinedPath(joined) == IF joined = "" THEN "/" ELSE joined

\* urljoin: the path of the result when the reference has a path
JoinPath(segments) ==
    JoinedPath(join("/", ResolvedPath(segments, ResolveDots(segments, 1, <<>>))))

\* urljoin once base and url are split into b and u
JoinSplit(b, u, url) ==
    IF u.scheme # b.scheme \/ u.scheme \notin UsesRelative THEN url
    ELSE IF u.scheme \in UsesNetloc /\ u.netloc # ""
    THEN urlunsplit(u.scheme, u.netloc, u.path, u.query, u.fragment)
    ELSE IF u.path = ""
    THEN urlunsplit(u.scheme, IF u.scheme \in UsesNetloc THEN b.netloc ELSE u.netloc,
                    b.path, IF u.query = "" THEN b.query ELSE u.query, u.fragment)
    ELSE urlunsplit(u.scheme, IF u.scheme \in UsesNetloc THEN b.netloc ELSE u.netloc,
                    JoinPath(Segments(b.path, u.path)), u.query, u.fragment)

JoinBase(b, url) == JoinSplit(b, urlsplit(url, b.scheme), url)

\* urljoin(base, url) for str arguments
urljoin(base, url) ==
    IF base = "" THEN url
    ELSE IF url = "" THEN base
    ELSE JoinBase(urlsplit(base, ""), url)

(***************************************************************************)
(* is_kenya_law_url and get_start_urls.                                    *)
(***************************************************************************)
is_kenya_law_url(url) == contains(lower(urlsplit(url, "").netloc), "kenyalaw.org")

\* A link entry of home.links is a str, a dict (it has .get) or an object
\* with an href attribute; Href is the value the loop binds to href.
LinkStr(s) == [t |-> "str", v |-> s]
LinkDict(h) == [t |-> "dict", href |-> h]
LinkObj(h) == [t |-> "obj", href |-> h]

Href(link) == IF link.t = "str" THEN Str(link.v) ELSE link.href

\* What firecrawl.scrape(base_url, formats=["links"]) does: it raises, or
\* returns an object without a links attribute, or one whose links is None
\* or a list of link entries.
HomeRaise == [k |-> "raise"]
HomeNoLinks == [k |-> "nolinks"]
HomeNone == [k |-> "none"]
HomeList(links) == [k |-> "list", links |-> links]

Raised == [raised |-> TRUE, value |-> <<>>]
Returned(v) == [raised |-> FALSE, value |-> v]

\* internal[:limit] for an int limit
Prefix(seq, n) ==
    IF n >= 0 THEN SubSeq(seq, 1, Min(n, Len(seq)))
    ELSE SubSeq(seq, 1, Len(seq) + n)

\* a path-boundary test in place of the literal prefix test
InternalAtBoundary(abs_url, base_url) ==
    abs_url = base_url \/ startswith(abs_url, base_url \o "/")

\* line 112: abs_url.startswith(base_url)
Internal(abs_url, base_url) == startswith(abs_url, base_url)

\* lines 112-113: internal after the append guarded by the prefix test
Collect(internal, abs_url, base_url) ==
    IF Internal(abs_url, base_url) THEN Append(internal, abs_url) ELSE internal

RECURSIVE LinkLoop(_, _, _, _, _)
\* line 114: the break once limit URLs are collected, or the next entry
LinkNext(base_url, limit, links, i, internal) ==
    IF IsNone(limit) THEN Raised                    \* int >= None: TypeError
    ELSE IF Len(internal) >= limit.n THEN Returned(internal)
    ELSE LinkLoop(base_url, limit, links, i + 1, internal)

\* lines 109-114 for the href of entry i
LinkStep(base_url, limit, links, i, internal, href) ==
    IF ~Truthy(href) THEN LinkLoop(base_url, limit, links, i + 1, internal)
    ELSE IF ~IsStr(href) THEN Raised                \* urljoin: TypeError
    ELSE LinkNext(base_url, limit, links, i,
                  Collect(internal, urljoin(base_url, href.v), base_url))

\* the for loop over links, from entry i on; raises where the code raises
LinkLoop(base_url, limit, links, i, internal) ==
    IF i > Len(links) THEN Returned(internal)
    ELSE LinkStep(base_url, limit, links, i, internal, Href(links[i]))

\* line 118: return internal[:limit]
DiscoverReturn(limit, loop) ==
    IF loop.raised THEN Raised
    ELSE IF IsNone(limit) THEN Returned(loop.value)         \* internal[:None]
    ELSE Returned(Prefix(loop.value, limit.n))

\* the try block of get_start_urls
DiscoverTry(base_url, limit, home) ==
    IF home.k = "raise" THEN Raised
    ELSE IF home.k = "none" THEN Raised             \* for link in None: TypeError
    ELSE DiscoverReturn(limit,
            LinkLoop(base_url, limit, IF home.k = "list" THEN home.links ELSE <<>>,
                     1, <<>>))

\* lines 119-121: the value returned, fallback when the try block raised
DiscoverExcept(r, fallback) == IF r.raised THEN fallback ELSE r.value

\* the except branch returning an empty list
get_start_urls_empty(base_url, limit, home) ==
    DiscoverExcept(DiscoverTry(base_url, limit, home), <<>>)

\* get_start_urls(base_url, limit) when the provider answers home
get_start_urls(base_url, limit, home) ==
    DiscoverExcept(DiscoverTry(base_url, limit, home), <<base_url>>)

(***************************************************************************)
(* The exclusion filter: exclude_regex.search(url) for the alternation     *)
(*   .*\.pdf$ | .*\.jpg$ | .*\.png$ | .*\.gif$ | /admin/.* | /login/.*      *)
(***************************************************************************)
\* "$" matches at the end of the string and before a newline that ends it
MatchesAtEnd(url, suffix) == endswith(url, suffix) \/ endswith(url, suffix \o "\n")

\* re.match in place of re.search: the path patterns must start the URL
ExcludedByMatch(url) ==
    \/ MatchesAtEnd(url, ".pdf")
    \/ MatchesAtEnd(url, ".jpg")
    \/ MatchesAtEnd(url, ".png")
    \/ MatchesAtEnd(url, ".gif")
    \/ startswith(url, "/admin/")
    \/ startswith(url, "/login/")

Excluded(url) ==
    \/ MatchesAtEnd(url, ".pdf")
    \/ MatchesAtEnd(url, ".jpg")
    \/ MatchesAtEnd(url, ".png")
    \/ MatchesAtEnd(url, ".gif")
    \/ contains(url, "/admin/")
    \/ contains(url, "/login/")

(***************************************************************************)
(* The crawl loop of scrape_kenya_law.                                     *)
(***************************************************************************)
Absent == [t |-> "absent"]      \* hasattr(result, name) is False
IsAbsent(x) == x.t = "absent"

\* What firecrawl.scrape(url, formats=["markdown"]) does: it raises, or
\* returns an object whose content and title attributes hold a value or
\* are absent; repr is str(result).
PageRaise == [k |-> "raise"]
Page(content, title, repr) ==
    [k |-> "ok", content |-> content, title |-> title, repr |-> repr]

ScrapeResult(url, content, title) ==
    [url |-> url, content |-> content, title |-> title, content_length |-> Len(content)]

\* the inner try block for one URL: the ScrapeResult appended, or an exception
ScrapePage(url, page) ==
    IF page.k = "raise" THEN Raised
    ELSE LET content == IF IsAbsent(page.content) THEN Str(page.repr) ELSE page.content
             title == IF IsAbsent(page.title) THEN None ELSE page.title
         IN  IF ~IsStr(content) THEN Raised                 \* len(None): TypeError
             ELSE IF ~(IsStr(title) \/ IsNone(title)) THEN Raised  \* ValidationError
             ELSE Returned(ScrapeResult(url, content.v, title))

MarkdownCall(url) == [formats |-> "markdown", url |-> url]
LinksCall(url) == [formats |-> "links", url |-> url]

RECURSIVE CrawlLoopBreak(_, _, _, _, _)
\* the loop with "break" in the except branch
CrawlLoopBreak(urls, pages, i, results, calls) ==
    IF i > Len(urls) THEN [results |-> results, calls |-> calls]
    ELSE IF Excluded(urls[i]) THEN CrawlLoopBreak(urls, pages, i + 1, results, calls)
    ELSE LET r == ScrapePage(urls[i], pages[Len(calls) + 1])
             calls2 == Append(calls, [formats |-> "markdown", url |-> urls[i]])
         IN  IF r.raised THEN [results |-> results, calls |-> calls2]
             ELSE CrawlLoopBreak(urls, pages, i + 1, Append(results, r.value), calls2)

RECURSIVE CrawlLoop(_, _, _, _, _)
\* for idx, url in enumerate(urls_to_scrape, 1): pages[k] is what the
\* provider does on the k-th markdown call.  Returns the results and the
\* provider calls made.
CrawlLoop(urls, pages, i, results, calls) ==
    IF i > Len(urls) THEN [results |-> results, calls |-> calls]
    ELSE IF Excluded(urls[i]) THEN CrawlLoop(urls, pages, i + 1, results, calls)
    ELSE LET r == ScrapePage(urls[i], pages[Len(calls) + 1])
             calls2 == Append(calls, MarkdownCall(urls[i]))
         IN  IF r.raised THEN CrawlLoop(urls, pages, i + 1, results, calls2)
             ELSE CrawlLoop(urls, pages, i + 1, Append(results, r.value), calls2)

\* the number of markdown calls the loop makes
Attempts(urls) == Len(SelectSeq(urls, LAMBDA u : ~Excluded(u)))

(***************************************************************************)
(* The document cache.                                                     *)
(***************************************************************************)
EmptyCache == [id \in {} |-> None]

\* f"doc_{int(time.time())}"
DocId(t) == "doc_" \o ToString(t)

CachedDocument(results, t) ==
    [content |-> [i \in 1..Len(results) |-> results[i].content],
     urls |-> [i \in 1..Len(results) |-> results[i].url],
     title |-> IF Len(results) > 0 THEN results[1].title ELSE Str("Unknown"),
     scraped_at |-> t]

\* the cache rebound to a dict holding the new document only
StoreAlone(cache, doc_id, doc) == [id \in {doc_id} |-> doc]

\* scraped_documents[doc_id] = {...}
Store(cache, doc_id, doc) ==
    [id \in DOMAIN cache \cup {doc_id} |-> IF id = doc_id THEN doc ELSE cache[id]]

(***************************************************************************)
(* call_llm and the prompt of chat_with_document.                          *)
(***************************************************************************)
PromptCut == 6000

PromptHead ==
    "You are a helpful legal AI assistant specializing in Kenya Law. "
    \o "You are analyzing legal documents from the Kenya Law website.\n\n"
    \o "**DOCUMENT CONTENT:**\n"

PromptMiddle ==
    "\n\n**INSTRUCTIONS:**\n"
    \o "- Answer based ONLY on the provided document content\n"
    \o "- If information isn't available in the document, clearly state: "
    \o "\"This information is not available in the provided document\"\n"
    \o "- For legal terms, provide brief explanations when helpful\n"
    \o "- Be precise and cite specific sections or paragraphs when possible\n"
    \o "- Use clear, professional language\n"
    \o "- If asked for legal advice, remind that this is for informational purposes only\n\n"
    \o "**USER QUESTION:** "

PromptTail == "\n\n**RESPONSE:**"

\* the content embedded whole
TruncateNothing(combined_content) == combined_content

\* combined_content[:6000]
Truncate(combined_content) == Slice(combined_content, 0, PromptCut)

\* combined_content = "\n\n".join(doc["content"])
CombinedContent(doc) == join("\n\n", doc.content)

\* the f-string assigned to prompt
BuildPrompt(doc, message) ==
    PromptHead \o Truncate(CombinedContent(doc)) \o PromptMiddle \o message \o PromptTail

Apology == "Sorry, I'm having trouble connecting to Gemini. Please try again."
NoKeyMessage == "Error: Gemini API key not configured"

\* JSON values: Str, PyInt, None, and
JDict(f) == [t |-> "dict", f |-> f]          \* f: a record, or <<>> for {}
JList(items) == [t |-> "list", items |-> items]
NotJson == [t |-> "notjson"]                 \* response.json() raises
Exc == [t |-> "raise"]

\* x[key]; Exc where Python raises KeyError, IndexError or TypeError
GetItem(x, key) ==
    CASE x.t = "dict" ->
            IF key.t = "str" /\ key.v \in DOMAIN x.f THEN x.f[key.v] ELSE Exc
      [] x.t = "list" ->
            IF key.t = "int" /\ key.n >= 0 /\ key.n < Len(x.items)
            THEN x.items[key.n + 1] ELSE Exc
      [] x.t = "str" ->
            IF key.t = "int" /\ key.n >= 0 /\ key.n < Len(x.v)
            THEN Str(Ch(x.v, key.n + 1)) ELSE Exc
      [] OTHER -> Exc

RECURSIVE GetPath(_, _, _)
GetPath(x, path, i) ==
    IF x.t = "raise" \/ i > Len(path) THEN x
    ELSE GetPath(GetItem(x, path[i]), path, i + 1)

\* result["candidates"][0]["content"]["parts"][0]["text"]
TextPath == <<Str("candidates"), PyInt(0), Str("content"), Str("parts"), PyInt(0), Str("text")>>

\* What the POST to the completion provider does: it raises (transport
\* error, timeout), or returns a response with a status code, a text and
\* the value response.json() gives (NotJson when it raises).
ReplyRaise == [k |-> "raise"]
ReplyHttp(status_code, text, json) ==
    [k |-> "http", status_code |-> status_code, text |-> text, json |-> json]

\* call_llm with the apology returned for every status other than 200
CompletionResultApology(reply) ==
    IF reply.k = "raise" THEN Str(Apology)
    ELSE IF reply.status_code = 200
    THEN LET text == GetPath(reply.json, TextPath, 1)
         IN  IF reply.json.t = "notjson" \/ text.t = "raise" THEN Str(Apology) ELSE text
    ELSE Str(Apology)

\* call_llm from the POST on: the value returned (never an exception)
CompletionResult(reply) ==
    IF reply.k = "raise" THEN Str(Apology)
    ELSE IF reply.status_code = 200
    THEN LET text == GetPath(reply.json, TextPath, 1)
         IN  IF reply.json.t = "notjson" \/ text.t = "raise" THEN Str(Apology) ELSE text
    ELSE LET error_detail == IF reply.text # "" THEN reply.text
                             ELSE "Status " \o ToString(reply.status_code)
         IN  Str("Error: Gemini API returned " \o error_detail)

\* the cache read again after the await
ChatReferencesReread(handler, cache) == cache[handler.request.document_id.v].urls

\* doc["urls"] of the document bound to doc before the await
ChatReferences(handler, cache) == handler.doc.urls

\* ChatResponse(response=response, document_references=...): the status
\* of the reply; response: str refuses any value that is not a str
ChatStatus(response) == IF IsStr(response) THEN 200 ELSE 500

(***************************************************************************)
(* State.                                                                  *)
(***************************************************************************)
NoDoc == [content |-> <<>>, urls |-> <<>>, title |-> None, scraped_at |-> 0]
NoScrapeRequest == [url |-> "", limit |-> None, scrape_links |-> FALSE]
NoChatRequest == [message |-> "", document_id |-> None]

\* a /chat handler: idle, or suspended in the await with its locals
Idle == [pc |-> "idle", request |-> NoChatRequest, doc |-> NoDoc, prompt |-> ""]

\* the record of the request handled last
NoRequest ==
    [endpoint |-> "none", status |-> 0,
     scrape_request |-> NoScrapeRequest, chat_request |-> NoChatRequest,
     calls |-> <<>>,            \* scrape provider calls, in order
     home |-> HomeRaise,        \* what the links call did
     pages |-> <<>>,            \* what each markdown call did
     urls_to_scrape |-> <<>>,
     success |-> FALSE, total_pages |-> 0, results |-> <<>>, document_id |-> None,
     prompts |-> <<>>,          \* prompts sent to the completion provider
     reply |-> ReplyRaise,      \* what the completion provider did
     doc |-> NoDoc,             \* the cached document the handler read
     response |-> None, document_references |-> <<>>]

Init ==
    /\ GEMINI_API_KEY \in {None, Str("key")}
    /\ scraped_documents = EmptyCache
    /\ now = 0
    /\ task = Idle
    /\ last = NoRequest
    /\ disc = [base_url |-> "", limit |-> None, home |-> HomeRaise,
               done |-> FALSE, result |-> <<>>]

(***************************************************************************)
(* POST /scrape.  The handler never awaits (firecrawl.scrape and           *)
(* time.sleep block the event loop), so it runs as one step.               *)
(***************************************************************************)
\* urls_to_scrape, lines 184-187
\* line 184: get_start_urls(...) or [base_url]
OrBase(found, base_url) == IF found = <<>> THEN <<base_url>> ELSE found

UrlsToScrape(request, home) ==
    IF request.scrape_links
    THEN OrBase(get_start_urls(request.url, request.limit, home), request.url)
    ELSE <<request.url>>

\* the reply to a request the domain check turns away
Rejected(request) ==
    [NoRequest EXCEPT !.endpoint = "scrape", !.status = 400, !.scrape_request = request]

\* the reply after the crawl, with everything the handler did
ScrapedReply(request, home, urls, pages, t, crawl) ==
    [NoRequest EXCEPT
        !.endpoint = "scrape", !.status = 200, !.scrape_request = request,
        !.home = home, !.pages = pages, !.urls_to_scrape = urls,
        !.calls = (IF request.scrape_links THEN <<LinksCall(request.url)>> ELSE <<>>)
                  \o crawl.calls,
        !.success = TRUE, !.total_pages = Len(crawl.results),
        !.results = crawl.results,
        !.document_id = Str(DocId(t))]

Scraped(request, home, urls, pages, t) ==
    ScrapedReply(request, home, urls, pages, t, CrawlLoop(urls, pages, 1, <<>>, <<>>))

\* lines 230-245: the document is cached and the reply returned at time t
Respond(reply, t) ==
    /\ last' = reply
    /\ scraped_documents' = Store(scraped_documents, reply.document_id.v,
                                  CachedDocument(reply.results, t))
    /\ now' = t
    /\ UNCHANGED <<GEMINI_API_KEY, task, disc>>

\* lines 196-245 for the URLs to scrape, the provider answering from Pages
Crawl(request, home, urls, Pages, t) ==
    /\ t <= MaxNow
    /\ \E pages \in [1..Attempts(urls) -> Pages] :
          Respond(Scraped(request, home, urls, pages, t), t)

\* Elapsed: the seconds the clock may advance while the handler runs
Scrape(Requests, Homes, Pages, Elapsed) ==
    \E request \in Requests :
        IF ~is_kenya_law_url(request.url)
        THEN /\ last' = Rejected(request)
             /\ UNCHANGED <<GEMINI_API_KEY, scraped_documents, now, task, disc>>
        ELSE \E home \in (IF request.scrape_links THEN Homes ELSE {HomeRaise}),
                elapsed \in Elapsed :
                Crawl(request, home, UrlsToScrape(request, home), Pages, now + elapsed)

(***************************************************************************)
(* POST /chat.  The handler runs up to "await call_llm(prompt)"; when the  *)
(* POST to the completion provider is made it is suspended there, and      *)
(* other handlers run until the provider answers.  A /chat handler writes  *)
(* no shared state, so one suspended handler is followed here; the         *)
(* requests handled meanwhile are /scrape requests and /chat requests that *)
(* return without awaiting.                                                *)
(***************************************************************************)
\* line 252: not request.document_id or request.document_id not in scraped_documents
NotFound(request, cache) ==
    \/ ~Truthy(request.document_id)
    \/ request.document_id.v \notin DOMAIN cache

\* an empty answer in place of the 404
MissingAnswered(request) ==
    [NoRequest EXCEPT !.endpoint = "chat", !.status = 200, !.chat_request = request,
                      !.response = Str("")]

\* line 253: raise HTTPException(status_code=404, detail="Document not found")
Missing(request) ==
    [NoRequest EXCEPT !.endpoint = "chat", !.status = 404, !.chat_request = request]

ChatReply(handler, reply, response, cache) ==
    [NoRequest EXCEPT
        !.endpoint = "chat", !.status = ChatStatus(response),
        !.chat_request = handler.request, !.doc = handler.doc,
        !.prompts = IF reply.k = "none" THEN <<>> ELSE <<handler.prompt>>,
        !.reply = IF reply.k = "none" THEN ReplyRaise ELSE reply,
        !.response = response,
        !.document_references = IF ChatStatus(response) = 200
                                 THEN ChatReferences(handler, cache) ELSE <<>>]

NoPost == [k |-> "none"]        \* call_llm returned before the POST

ChatBegin(Requests) ==
    \E request \in Requests :
        IF NotFound(request, scraped_documents)
        THEN /\ last' = Missing(request)
             /\ UNCHANGED <<GEMINI_API_KEY, scraped_documents, now, task, disc>>
        ELSE LET doc == scraped_documents[request.document_id.v]
                 suspended == [pc |-> "awaiting", request |-> request, doc |-> doc,
                               prompt |-> BuildPrompt(doc, request.message)]
             IN  IF ~Truthy(GEMINI_API_KEY)
                 THEN /\ last' = ChatReply(suspended, NoPost, Str(NoKeyMessage), scraped_documents)
                      /\ UNCHANGED <<GEMINI_API_KEY, scraped_documents, now, task, disc>>
                 ELSE /\ task.pc = "idle"
                      /\ task' = suspended
                      /\ UNCHANGED <<GEMINI_API_KEY, scraped_documents, now, last, disc>>

ChatEnd(Replies) ==
    \E reply \in Replies :
        /\ task.pc = "awaiting"
        /\ last' = ChatReply(task, reply, CompletionResult(reply), scraped_documents)
        /\ task' = Idle
        /\ UNCHANGED <<GEMINI_API_KEY, scraped_documents, now, disc>>

\* time passes while no handler runs
Tick ==
    /\ now < MaxNow
    /\ now' = now + 1
    /\ UNCHANGED <<GEMINI_API_KEY, scraped_documents, task, last, disc>>

\* one call of get_start_urls on the arguments drawn at the start
Discover ==
    /\ ~disc.done
    /\ disc' = [disc EXCEPT !.done = TRUE,
                            !.result = get_start_urls(disc.base_url, disc.limit, disc.home)]
    /\ UNCHANGED <<GEMINI_API_KEY, scraped_documents, now, task, last>>

(***************************************************************************)
(* Inputs.                                                                 *)
(***************************************************************************)
Seed == "https://kenyalaw.org/docs"

ShortPage == Page(Str("Act one"), Str("Act 1"), "Document(act1)")
OtherPage == Page(Absent, Absent, "Document(act2)")
BadPage == Page(None, Str("Act 3"), "Document(act3)")

RECURSIVE Doubled(_, _)
Doubled(s, k) == IF k = 0 THEN s ELSE LET h == Doubled(s, k - 1) IN h \o h

LongPage == Page(Str(Doubled("s", LongDoublings)), None, "Document(long)")

LimitValues == {None} \cup {PyInt(n) : n \in 0..MaxLimit}

Replies ==
    {ReplyRaise,
     ReplyHttp(200, "{}", JDict([candidates |-> JList(<<JDict([content |->
         JDict([parts |-> JList(<<JDict([text |-> Str("Section 3 says so.")])>>)])])>>)])),
     ReplyHttp(200, "{}", JDict([candidates |-> JList(<<JDict([content |->
         JDict([parts |-> JList(<<JDict([text |-> None])>>)])])>>)])),
     ReplyHttp(200, "{}", JDict([candidates |-> JList(<<>>)])),
     ReplyHttp(200, "{}", JDict([error |-> Str("blocked")])),
     ReplyHttp(200, "<html>", NotJson),
     ReplyHttp(500, "quota exceeded", NotJson),
     ReplyHttp(503, "", NotJson)}

ChatRequests ==
    [message : {"What is section 3?"},
     document_id : {None, Str(""), Str("doc_0"), Str("doc_1"), Str("doc_x")}]

(***************************************************************************)
(* The service: any sequence of requests, one /chat handler at a time      *)
(* suspended on the completion provider.                                   *)
(***************************************************************************)
ScrapeRequests ==
    [url : {Seed, "https://other.org/docs"}, limit : {PyInt(2)}, scrape_links : BOOLEAN]

Next ==
    \/ Tick
    \/ Scrape(ScrapeRequests, {HomeRaise}, {PageRaise, ShortPage, OtherPage}, {0, 1})
    \/ ChatBegin(ChatRequests)
    \/ ChatEnd(Replies)

Spec == Init /\ [][Next]_vars

(***************************************************************************)
(* Prompts: documents of one or two pages, short and long, cached within   *)
(* one second and chatted about.                                           *)
(***************************************************************************)
TwoLinks == HomeList(<<LinkStr("/docs/act1"), LinkStr("/docs/act2")>>)

PromptRequests == [url : {Seed}, limit : {PyInt(2)}, scrape_links : {TRUE}]

NextPrompt ==
    \/ Scrape(PromptRequests, {TwoLinks}, {PageRaise, ShortPage, LongPage}, {0})
    \/ ChatBegin(ChatRequests)
    \/ ChatEnd({ReplyRaise})

SpecPrompt == Init /\ [][NextPrompt]_vars

(***************************************************************************)
(* Crawls: the first POST /scrape of a process, over every request, link   *)
(* page and pattern of page failures below.                                *)
(***************************************************************************)
CrawlRequests ==
    [url : {Seed}, limit : LimitValues, scrape_links : BOOLEAN]
    \cup [url : {"https://other.org/docs", "https://other.org/kenyalaw.org",
                 "https://kenyalaw.org.evil.com/docs", "https://KenyaLaw.org/docs",
                 "https://kenyalaw.org/admin/x"},
          limit : {PyInt(MaxLimit)}, scrape_links : BOOLEAN]

CrawlHomes ==
    {HomeRaise, HomeNone, HomeNoLinks,
     HomeList(<<>>),
     HomeList(<<LinkStr("/docs/p1"), LinkStr("/docs/admin/x"), LinkStr("/docs/p2")>>),
     HomeList(<<LinkStr("/docs/a.pdf"), LinkStr("/docs/b.jpg"), LinkStr("/docs/p1")>>),
     HomeList(<<LinkStr("/docs/c.png"), LinkStr("/docs/d.gif"), LinkStr("/docs/login/y")>>),
     HomeList(<<LinkStr("https://other.org/x"), LinkStr("/docs/p1"), LinkStr("/docs/p1")>>),
     HomeList(<<LinkStr("/docs/e.PDF"), LinkStr("/docs/administrator"),
                LinkStr("/docs/f.pdf?page=1")>>)}

NextCrawl ==
    /\ last.endpoint = "none"
    /\ Scrape(CrawlRequests, CrawlHomes, {PageRaise, ShortPage, OtherPage, BadPage}, {0, 1})

SpecCrawl == Init /\ [][NextCrawl]_vars

(***************************************************************************)
(* Link discovery: get_start_urls on every link page of up to MaxLinks     *)
(* entries.                                                                *)
(***************************************************************************)
DiscoverBase == "https://kenyalaw.org/docs/act1"

LinkEntries ==
    {LinkStr("/docs/act1/part1"), LinkStr("https://other.org/x"),
     LinkStr("/docs/act1/part2"), LinkStr(""), LinkDict(Str("/docs/act10")),
     LinkObj(None), LinkDict(PyInt(5))}

LinkLists == UNION {[1..n -> LinkEntries] : n \in 0..MaxLinks}

DiscoverHomes == {HomeRaise, HomeNone, HomeNoLinks} \cup {HomeList(l) : l \in LinkLists}

InitDiscover ==
    /\ GEMINI_API_KEY = None
    /\ scraped_documents = EmptyCache
    /\ now = 0
    /\ task = Idle
    /\ last = NoRequest
    /\ disc \in [base_url : {DiscoverBase}, limit : LimitValues, home : DiscoverHomes,
                  done : {FALSE}, result : {<<>>}]

NextDiscover == Discover

SpecDiscover == InitDiscover /\ [][NextDiscover]_vars

(***************************************************************************)
(* Properties.                                                             *)
(***************************************************************************)
\* the host of the URL is kenyalaw.org or one of its subdomains
OnAllowedDomain(url) ==
    LET host == lower(urlsplit(url, "").netloc)
    IN  host = "kenyalaw.org" \/ endswith(host, ".kenyalaw.org")

\* C1: a POST /scrape whose URL is not on the kenyalaw.org domain is
\* answered 400, with no scrape provider call made (links or markdown)
\* and the document cache as it was.
C1_OffDomainRejected ==
    (last.endpoint = "scrape" /\ ~OnAllowedDomain(last.scrape_request.url))
        => /\ last.status = 400
           /\ last.calls = <<>>
           /\ scraped_documents = EmptyCache

\* the document id of a request is missing, empty or no key of the cache
UnknownId(request, cache) ==
    \/ request.document_id.t = "None"
    \/ request.document_id.v \notin DOMAIN cache

\* C2: a POST /chat whose document id is missing or no key of the cache
\* is answered 404 whatever the message, sends no prompt to the
\* completion provider, suspends no handler and leaves the cache as it was.
C2_UnknownDocumentIs404 ==
    [][(last' # last /\ last'.endpoint = "chat"
            /\ UnknownId(last'.chat_request, scraped_documents))
        => /\ last'.status = 404
           /\ last'.prompts = <<>>
           /\ last'.response = None
           /\ scraped_documents' = scraped_documents
           /\ task' = task]_vars

C2_Witness ==
    /\ last.endpoint = "chat"
    /\ last.status = 404
    /\ last.chat_request.document_id = Str("doc_x")
    /\ DOMAIN scraped_documents # {}

\* the text at candidates[0].content.parts[0].text of a JSON body, Exc
\* when the body has no such path
TextOf(body) ==
    IF body.t # "dict" THEN Exc
    ELSE IF "candidates" \notin DOMAIN body.f THEN Exc
    ELSE LET candidates == body.f["candidates"]
         IN  IF candidates.t # "list" THEN Exc
             ELSE IF Len(candidates.items) = 0 THEN Exc
             ELSE LET first == candidates.items[1]
                  IN  IF first.t # "dict" THEN Exc
                      ELSE IF "content" \notin DOMAIN first.f THEN Exc
                      ELSE LET content == first.f["content"]
                           IN  IF content.t # "dict" THEN Exc
                               ELSE IF "parts" \notin DOMAIN content.f THEN Exc
                               ELSE LET parts == content.f["parts"]
                                    IN  IF parts.t # "list" THEN Exc
                                        ELSE IF Len(parts.items) = 0 THEN Exc
                                        ELSE LET part == parts.items[1]
                                             IN  IF part.t # "dict" THEN Exc
                                                 ELSE IF "text" \notin DOMAIN part.f THEN Exc
                                                 ELSE part.f["text"]

\* the completion provider failed: no answer text came back
ProviderFailed(reply) ==
    \/ reply.k = "raise"
    \/ reply.status_code # 200
    \/ TextOf(reply.json).t # "str"

\* the request handled last is a /chat request that reached the POST
ChatPosted == last.endpoint = "chat" /\ last.prompts # <<>>

FirstLinkBreaks(home) ==
    /\ home.k = "list"
    /\ Len(home.links) > 0
    /\ home.links[1].t # "str"
    /\ home.links[1].href.t = "int"
    /\ home.links[1].href.n # 0

\* C4: when the links call of the scrape provider raises, or the link list
\* cannot be processed (links is None, or the first entry's href is no
\* string), get_start_urls returns exactly [base_url].
C4_FallbackIsSeed ==
    (disc.done /\ (disc.home.k \in {"raise", "none"} \/ FirstLinkBreaks(disc.home)))
        => disc.result = <<disc.base_url>>

C4_Witness ==
    /\ disc.done
    /\ disc.home.k = "raise"
    /\ disc.result = <<DiscoverBase>>

\* the href of a link entry, "" when it has none
HrefText(link) ==
    IF link.t = "str" THEN link.v
    ELSE IF link.href.t = "str" THEN link.href.v ELSE ""

\* the entry's href is a value urljoin raises on
BreaksJoin(link) == link.t # "str" /\ link.href.t = "int" /\ link.href.n # 0

\* the first n elements of a sequence
FirstN(seq, n) == SubSeq(seq, 1, IF n < Len(seq) THEN n ELSE Len(seq))

\* the request of the discovery has a limit >= 1 and got a link list
DiscoveredList ==
    /\ disc.done
    /\ disc.home.k = "list"
    /\ disc.limit.t = "int"
    /\ disc.limit.n >= 1

\* C5 as stated: the result is the first min(limit, k) of the k links
\* whose absolute form starts with base_url, over link lists whose hrefs
\* are all strings.
C5_FirstPrefixLinks ==
    (DiscoveredList /\ \A i \in 1..Len(disc.home.links) :
                           disc.home.links[i].t = "str"
                           \/ disc.home.links[i].href.t = "str")
        => LET absolute == [i \in 1..Len(disc.home.links) |->
                               urljoin(disc.base_url, HrefText(disc.home.links[i]))]
               matching == SelectSeq(absolute, LAMBDA u : startswith(u, disc.base_url))
           IN  disc.result = FirstN(matching, disc.limit.n)

\* C5 amended: the result is, in provider order, the first min(limit, k)
\* of the k links that have a non-empty href whose absolute form starts
\* with base_url (an empty or missing href is skipped, though "" resolves
\* to base_url itself); it has at most limit entries, each starting with
\* base_url.  When an href that is no string is met before limit URLs are
\* collected, the result is [base_url].
C5_FirstNonEmptyPrefixLinks ==
    DiscoveredList =>
        LET links == disc.home.links
            Kept(link) == /\ ~BreaksJoin(link)
                          /\ HrefText(link) # ""
                          /\ startswith(urljoin(disc.base_url, HrefText(link)),
                                        disc.base_url)
            KeptBefore(i) == Len(SelectSeq(SubSeq(links, 1, i - 1), Kept))
            broken == \E i \in 1..Len(links) :
                         BreaksJoin(links[i]) /\ KeptBefore(i) < disc.limit.n
            kept == SelectSeq(links, Kept)
            matching == [i \in 1..Len(kept) |-> urljoin(disc.base_url, HrefText(kept[i]))]
        IN  /\ disc.result = IF broken THEN <<disc.base_url>>
                             ELSE FirstN(matching, disc.limit.n)
            /\ Len(disc.result) <= disc.limit.n
            /\ \A i \in 1..Len(disc.result) : startswith(disc.result[i], disc.base_url)

C5_Witness ==
    /\ DiscoveredList
    /\ disc.limit.n = 2
    /\ disc.home.links = <<LinkStr("/docs/act1/part1"), LinkStr("https://other.org/x"),
                            LinkStr("/docs/act1/part2")>>
    /\ disc.result = <<"https://kenyalaw.org/docs/act1/part1",
                        "https://kenyalaw.org/docs/act1/part2">>

\* the URL matches an exclusion pattern: it ends in .pdf, .jpg, .png or
\* .gif, or holds an /admin/ or /login/ path
MatchesExclusion(url) ==
    \/ \E ext \in {".pdf", ".jpg", ".png", ".gif"} : endswith(url, ext)
    \/ contains(url, "/admin/")
    \/ contains(url, "/login/")

\* the request handled last is a POST /scrape that ran the crawl
Crawled == last.endpoint = "scrape" /\ last.status = 200

\* the URLs of a sequence of records with a url field
UrlsOf(records) == [i \in 1..Len(records) |-> records[i].url]

\* the markdown calls among the provider calls of the request
MarkdownCalls == SelectSeq(last.calls, LAMBDA c : c.formats = "markdown")

\* C6: no URL of the crawl set that matches an exclusion pattern is
\* scraped in markdown mode or appears in a result; a crawl set of n URLs
\* with m excluded ones gives at most n - m results.
C6_ExcludedNeverScraped ==
    Crawled =>
        LET urls == last.urls_to_scrape
            excluded == SelectSeq(urls, MatchesExclusion)
        IN  /\ \A i \in 1..Len(urls) :
                  MatchesExclusion(urls[i]) =>
                      /\ \A k \in 1..Len(MarkdownCalls) : MarkdownCalls[k].url # urls[i]
                      /\ \A k \in 1..Len(last.results) : last.results[k].url # urls[i]
            /\ Len(last.results) <= Len(urls) - Len(excluded)

C6_Witness ==
    /\ Crawled
    /\ last.urls_to_scrape = <<"https://kenyalaw.org/docs/p1",
                                "https://kenyalaw.org/docs/admin/x",
                                "https://kenyalaw.org/docs/p2">>
    /\ Len(last.results) = 2

\* the provider call returned a page the handler can record
Fetched(page) ==
    /\ page.k = "ok"
    /\ page.content.t \in {"str", "absent"}
    /\ page.title.t \in {"str", "absent", "None"}

\* C7: every URL of the crawl set that is not excluded is scraped exactly
\* once, in order, whichever pages fail; the results are the fetched URLs
\* in that order; the reply is 200 with success = true and total_pages
\* the number of results, also when no page was fetched.
C7_FailuresNeverAbort ==
    (last.endpoint = "scrape" /\ is_kenya_law_url(last.scrape_request.url)) =>
        LET attempted == SelectSeq(last.urls_to_scrape, LAMBDA u : ~MatchesExclusion(u))
            fetched == {k \in 1..Len(attempted) : Fetched(last.pages[k])}
            Position(k) == Cardinality({j \in fetched : j <= k})
        IN  /\ last.status = 200
            /\ last.success
            /\ UrlsOf(MarkdownCalls) = attempted
            /\ Len(last.results) = Cardinality(fetched)
            /\ last.total_pages = Len(last.results)
            /\ \A k \in fetched : last.results[Position(k)].url = attempted[k]

C7_Witness ==
    /\ Crawled
    /\ Len(last.pages) = 3
    /\ last.pages[1].k = "raise"
    /\ last.pages[2].k = "raise"
    /\ Fetched(last.pages[3])
    /\ Len(last.results) = 1
    /\ last.results[1].url = last.urls_to_scrape[3]

\* the cached content strings joined with a blank line
RECURSIVE JoinedContent(_, _)
JoinedContent(content, n) ==
    IF n = 0 THEN ""
    ELSE IF n = 1 THEN content[1]
    ELSE JoinedContent(content, n - 1) \o "\n" \o "\n" \o content[n]

\* the part of a prompt between the template's head and its instructions
Embedded(prompt, message) ==
    SubSeq(prompt, Len(PromptHead) + 1,
           Len(prompt) - Len(PromptMiddle) - Len(message) - Len(PromptTail))

\* C8: the content embedded in the prompt of a suspended /chat handler is
\* the first 6000 characters of its document's content strings joined
\* with a blank line, the whole of it when it has at most 6000
\* characters; truncating the embedded content again changes nothing.
C8_PromptHoldsFirst6000 ==
    task.pc = "awaiting" =>
        LET joined == JoinedContent(task.doc.content, Len(task.doc.content))
            embedded == Embedded(task.prompt, task.request.message)
        IN  /\ Len(embedded) = (IF Len(joined) <= 6000 THEN Len(joined) ELSE 6000)
            /\ embedded = SubSeq(joined, 1, Len(embedded))
            /\ Truncate(embedded) = embedded
            /\ task.prompt = PromptHead \o embedded \o PromptMiddle
                                \o task.request.message \o PromptTail

C8_Witness ==
    /\ task.pc = "awaiting"
    /\ Len(JoinedContent(task.doc.content, Len(task.doc.content))) > 6000
    /\ Len(Embedded(task.prompt, task.request.message)) = 6000

\* C9 as stated: a document once cached keeps its content list, URL list
\* and title for good.
C9_NeverUpdated ==
    [][\A id \in DOMAIN scraped_documents :
          /\ id \in DOMAIN scraped_documents'
          /\ scraped_documents'[id].content = scraped_documents[id].content
          /\ scraped_documents'[id].urls = scraped_documents[id].urls
          /\ scraped_documents'[id].title = scraped_documents[id].title]_vars

\* C9 amended: a document once cached is never deleted or expired, and no
\* /chat request changes the cache.  Its entry keeps its content list,
\* URL list and title unless a later /scrape completes in the same clock
\* second: that request gets the same identifier and replaces the entry
\* with its own results.
C9_NeverDeleted ==
    [][\A id \in DOMAIN scraped_documents :
          /\ id \in DOMAIN scraped_documents'
          /\ scraped_documents'[id] # scraped_documents[id] =>
                /\ last'.endpoint = "scrape"
                /\ last'.status = 200
                /\ last'.document_id = Str(id)
                /\ scraped_documents[id].scraped_at = now'
                /\ id = "doc_" \o ToString(now')
                /\ scraped_documents'[id].urls = UrlsOf(last'.results)
                /\ Len(scraped_documents'[id].content) = Len(last'.results)
                /\ \A i \in 1..Len(last'.results) :
                      scraped_documents'[id].content[i] = last'.results[i].content]_vars

C9_Witness ==
    /\ DOMAIN scraped_documents = {"doc_0", "doc_1"}
    /\ scraped_documents["doc_0"].urls = <<Seed>>
    /\ last.endpoint = "scrape"
    /\ last.document_id = Str("doc_1")

\* C10: the document_references of a /chat reply are the URL list of the
\* document the handler read before it awaited the completion provider,
\* the one whose content is embedded in the prompt it sent, whatever was
\* stored under the same identifier while the call was in flight.
C10_ReferencesMatchPrompt ==
    (last.endpoint = "chat" /\ last.status = 200) =>
        /\ last.document_references = last.doc.urls
        /\ \A i \in 1..Len(last.prompts) :
              Embedded(last.prompts[i], last.chat_request.message)
                  = FirstN(JoinedContent(last.doc.content, Len(last.doc.content)), 6000)

C10_Witness ==
    /\ ChatPosted
    /\ last.status = 200
    /\ last.document_references = <<Seed>>
    /\ scraped_documents[last.chat_request.document_id.v].urls = <<>>

====
